---- MODULE Spec2Model ----
(***************************************************************************)
(* Morton (Z-order) encoding of a pair of u32 coordinates into a u64 key,  *)
(* as implemented by src/lib.rs: the portable shift/mask implementation,   *)
(* the BMI2 pdep/pext implementation and the cfg-based selection of the    *)
(* pair re-exported at the crate root.                                     *)
(*                                                                         *)
(* A machine word is represented by the set of its set bit positions       *)
(* (bit 0 is the least significant bit), so that 64-bit values never pass  *)
(* through the model checker's 32-bit integers.                            *)
(***************************************************************************)
EXTENDS Integers, FiniteSets, Sequences, TLC

VARIABLES nightly, bmi2, x, y, a, key, coords, impl, spread_y, lhs, rhs, overflow, pc

vars == <<nightly, bmi2, x, y, a, key, coords, impl, spread_y, lhs, rhs, overflow, pc>>

----------------------------------------------------------------------------
(* Machine words *)

U32Bits == 0..31
U64Bits == 0..63
Zero == {}

\* The word written as a hexadecimal literal, most significant digit first.
FromHex(digits) ==
    {p \in 0..(4 * Len(digits) - 1) :
        (digits[Len(digits) - (p \div 4)] \div (2 ^ (p % 4))) % 2 = 1}

Xor(v, w) == (v \ w) \cup (w \ v)
And(v, w) == v \cap w
Or(v, w) == v \cup w
\* v << s on a 64-bit word: bits shifted past bit 63 are dropped.
Shl(v, s) == {i + s : i \in v} \cap U64Bits
\* v >> s on an unsigned 64-bit word: zeros enter from the top.
Shr(v, s) == {i - s : i \in {j \in v : j >= s}}
\* v >> s on a signed 64-bit word: copies of the sign bit enter from the top.
Sar(v, s) == Shr(v, s) \cup (IF 63 \in v THEN (64 - s)..63 ELSE {})

\* v + w modulo 2^64, by carry propagation.
RECURSIVE Add(_, _)
Add(v, w) == IF w = {} THEN v ELSE Add(Xor(v, w), Shl(And(v, w), 1))
\* TRUE iff v + w does not fit in 64 bits (a carry leaves bit 63).
RECURSIVE AddOverflows(_, _)
AddOverflows(v, w) ==
    IF w = {} THEN FALSE
    ELSE 63 \in And(v, w) \/ AddOverflows(Xor(v, w), Shl(And(v, w), 1))

\* Casts: widening an unsigned value adds zero bits, narrowing keeps the low
\* bits, and a cast between u64 and i64 keeps the bit pattern.
u32_as_u64(v) == v \cap U32Bits
u32_as_i64(v) == v \cap U32Bits
u64_as_i64(v) == v \cap U64Bits
i64_as_u64(v) == v \cap U64Bits
u64_as_u32(v) == v \cap U32Bits
i64_as_u32(v) == v \cap U32Bits

----------------------------------------------------------------------------
(* mod bmi *)

\* llvm.x86.bmi.pdep.64: the low bits of src are scattered, in order, to the
\* positions of the set bits of mask.
bmi_pdep_64(src, mask) ==
    {p \in mask : Cardinality({m \in mask : m < p}) \in src}
\* llvm.x86.bmi.pext.64: the bits of src at the positions of the set bits of
\* mask are gathered, in order, into the low bits.
bmi_pext_64(src, mask) ==
    {Cardinality({m \in mask : m < p}) : p \in And(src, mask)}

\* The pattern with the odd positions set instead of the even ones.
PATTERN_odd == FromHex(<<10,10,10,10, 10,10,10,10, 10,10,10,10, 10,10,10,10>>)

PATTERN == FromHex(<<5,5,5,5, 5,5,5,5, 5,5,5,5, 5,5,5,5>>)

\* The coordinates taken in the opposite order.
bmi_morton_encode_swapped(cx, cy) ==
    i64_as_u64(Or(Shl(bmi_pdep_64(u32_as_i64(cx), PATTERN), 1),
                  bmi_pdep_64(u32_as_i64(cy), PATTERN)))

bmi_morton_encode(cx, cy) ==
    i64_as_u64(Or(Shl(bmi_pdep_64(u32_as_i64(cy), PATTERN), 1),
                  bmi_pdep_64(u32_as_i64(cx), PATTERN)))

\* The shift before the second extraction left out.
bmi_morton_decode_noshift(k) ==
    <<i64_as_u32(bmi_pext_64(u64_as_i64(k), PATTERN)),
      i64_as_u32(bmi_pext_64(u64_as_i64(k), PATTERN))>>

bmi_morton_decode(k) ==
    <<i64_as_u32(bmi_pext_64(u64_as_i64(k), PATTERN)),
      i64_as_u32(bmi_pext_64(Sar(u64_as_i64(k), 1), PATTERN))>>

----------------------------------------------------------------------------
(* mod portable *)

M32 == FromHex(<<0,0,0,0, 0,0,0,0, 15,15,15,15, 15,15,15,15>>)
M16 == FromHex(<<0,0,0,0, 15,15,15,15, 0,0,0,0, 15,15,15,15>>)
M8  == FromHex(<<0,0,15,15, 0,0,15,15, 0,0,15,15, 0,0,15,15>>)
M4  == FromHex(<<0,15,0,15, 0,15,0,15, 0,15,0,15, 0,15,0,15>>)
M2  == FromHex(<<3,3,3,3, 3,3,3,3, 3,3,3,3, 3,3,3,3>>)
M1  == FromHex(<<5,5,5,5, 5,5,5,5, 5,5,5,5, 5,5,5,5>>)

\* The third round shifting by 2 instead of 4.
part1by1_wrong_shift(v) ==
    LET x0 == And(u32_as_u64(v), M32)
        x1 == And(Xor(x0, Shl(x0, 16)), M16)
        x2 == And(Xor(x1, Shl(x1, 8)), M8)
        x3 == And(Xor(x2, Shl(x2, 2)), M4)
        x4 == And(Xor(x3, Shl(x3, 2)), M2)
        x5 == And(Xor(x4, Shl(x4, 1)), M1)
    IN  x5

\* The mask of the last round left out.
part1by1_no_final_mask(v) ==
    LET x0 == And(u32_as_u64(v), M32)
        x1 == And(Xor(x0, Shl(x0, 16)), M16)
        x2 == And(Xor(x1, Shl(x1, 8)), M8)
        x3 == And(Xor(x2, Shl(x2, 4)), M4)
        x4 == And(Xor(x3, Shl(x3, 2)), M2)
        x5 == Xor(x4, Shl(x4, 1))
    IN  x5

\* The first round left out, so that the high half of the input is dropped.
part1by1_no_first_round(v) ==
    LET x0 == And(u32_as_u64(v), M32)
        x1 == And(x0, M16)
        x2 == And(Xor(x1, Shl(x1, 8)), M8)
        x3 == And(Xor(x2, Shl(x2, 4)), M4)
        x4 == And(Xor(x3, Shl(x3, 2)), M2)
        x5 == And(Xor(x4, Shl(x4, 1)), M1)
    IN  x5

part1by1(v) ==
    LET x0 == And(u32_as_u64(v), M32)
        x1 == And(Xor(x0, Shl(x0, 16)), M16)
        x2 == And(Xor(x1, Shl(x1, 8)), M8)
        x3 == And(Xor(x2, Shl(x2, 4)), M4)
        x4 == And(Xor(x3, Shl(x3, 2)), M2)
        x5 == And(Xor(x4, Shl(x4, 1)), M1)
    IN  x5

\* The spread of x shifted instead of the spread of y.
portable_morton_encode_swapped(cx, cy) == Add(Shl(part1by1(cx), 1), part1by1(cy))

portable_morton_encode(cx, cy) == Add(Shl(part1by1(cy), 1), part1by1(cx))

\* The last round left out, so that the high half of the result is lost.
compact1by1_no_last_round(v) ==
    LET x0 == And(v, M1)
        x1 == And(Xor(x0, Shr(x0, 1)), M2)
        x2 == And(Xor(x1, Shr(x1, 2)), M4)
        x3 == And(Xor(x2, Shr(x2, 4)), M8)
        x4 == And(Xor(x3, Shr(x3, 8)), M16)
    IN  u64_as_u32(x4)

compact1by1(v) ==
    LET x0 == And(v, M1)
        x1 == And(Xor(x0, Shr(x0, 1)), M2)
        x2 == And(Xor(x1, Shr(x1, 2)), M4)
        x3 == And(Xor(x2, Shr(x2, 4)), M8)
        x4 == And(Xor(x3, Shr(x3, 8)), M16)
        x5 == And(Xor(x4, Shr(x4, 16)), M32)
    IN  u64_as_u32(x5)

\* The two results in the opposite order.
portable_morton_decode_swapped(k) == <<compact1by1(Shr(k, 1)), compact1by1(k)>>

portable_morton_decode(k) == <<compact1by1(k), compact1by1(Shr(k, 1))>>

----------------------------------------------------------------------------
(* Build configuration: the cfg predicates of the crate root *)

\* #[cfg(not(all(feature = "nightly", target_feature = "bmi2")))] pub use portable
use_portable(n, b) == ~(n /\ b)
\* The re-export of bmi gated on the feature alone.
use_bmi_feature_only(n, b) == n
\* #[cfg(all(feature = "nightly", target_feature = "bmi2"))] pub use bmi
use_bmi(n, b) == n /\ b
\* #[cfg(all(feature = "nightly", target_feature = "bmi2"))] pub mod bmi
mod_bmi(n, b) == n /\ b

\* The modules whose (morton_encode, morton_decode) pair the crate root re-exports.
Exported ==
    (IF use_portable(nightly, bmi2) THEN {"portable"} ELSE {}) \cup
    (IF use_bmi(nightly, bmi2) THEN {"bmi"} ELSE {})
\* The modules that are part of the build.
Compiled == {"portable"} \cup (IF mod_bmi(nightly, bmi2) THEN {"bmi"} ELSE {})

----------------------------------------------------------------------------
(* Inputs *)

MaxRun == 2

INPUT_X == FromHex(<<1,2,3,4,5,6>>)
INPUT_Y == FromHex(<<4,5,6,7,8,9>>)
OUTPUT == FromHex(<<2,1,2,6,2,13,3,10,9,1,9,6>>)

\* The 64-bit word with the given high and low 32-bit halves.
Join(hi, lo) == (lo \cap U32Bits) \cup {i + 32 : i \in hi \cap U32Bits}

\* A run of len consecutive set bits starting at bit k, cut at the word's width.
Run(k, len, bits) == (k..(k + len - 1)) \cap bits

InU32 ==
    {Zero, U32Bits, FromHex(<<5,5,5,5,5,5,5,5>>), FromHex(<<10,10,10,10,10,10,10,10>>),
     INPUT_X, INPUT_Y}
    \cup {Run(k, len, U32Bits) : k \in U32Bits, len \in 1..MaxRun}

InU64 ==
    {Zero, U64Bits, PATTERN, U64Bits \ PATTERN, OUTPUT}
    \cup {Run(k, len, U64Bits) : k \in U64Bits, len \in 1..MaxRun}
    \cup {U64Bits \ Run(k, len, U64Bits) : k \in U64Bits, len \in 1..MaxRun}
    \cup {Join(hi, lo) : hi \in InU32, lo \in InU32}

----------------------------------------------------------------------------
(* The calls *)

Init ==
    /\ nightly \in BOOLEAN
    /\ bmi2 \in BOOLEAN
    /\ \/ pc = "start_encode" /\ x \in InU32 /\ y \in InU32 /\ a = Zero
       \/ pc = "start_decode" /\ x = Zero /\ y = Zero /\ a \in InU64
    /\ key = Zero
    /\ coords = <<Zero, Zero>>
    /\ impl = "none"
    /\ spread_y = Zero
    /\ lhs = Zero
    /\ rhs = Zero
    /\ overflow = FALSE

\* A call is either an encode of given coordinates or a decode of a given key.
\* The arguments of an encode call: the given coordinates, or the coordinates
\* a preceding decode returned.
EncodeArgs == IF pc = "start_encode" THEN <<x, y>> ELSE coords
\* The argument of a decode call: the given key, or the key a preceding encode
\* returned.
DecodeArg == IF pc = "start_decode" THEN a ELSE key

\* portable::morton_encode, with the operands of its addition.
PortableEncodeStep(cx, cy) ==
    /\ spread_y' = part1by1(cy)
    /\ lhs' = Shl(part1by1(cy), 1)
    /\ rhs' = part1by1(cx)
    /\ overflow' = AddOverflows(Shl(part1by1(cy), 1), part1by1(cx))
    /\ key' = portable_morton_encode(cx, cy)
    /\ impl' = "portable"

\* bmi::morton_encode, with the operands of its bitwise or.
BmiEncodeStep(cx, cy) ==
    /\ spread_y' = bmi_pdep_64(u32_as_i64(cy), PATTERN)
    /\ lhs' = Shl(bmi_pdep_64(u32_as_i64(cy), PATTERN), 1)
    /\ rhs' = bmi_pdep_64(u32_as_i64(cx), PATTERN)
    /\ overflow' = FALSE
    /\ key' = bmi_morton_encode(cx, cy)
    /\ impl' = "bmi"

PortableEncode ==
    /\ pc \in {"start_encode", "portable_decode"}
    /\ PortableEncodeStep(EncodeArgs[1], EncodeArgs[2])
    /\ pc' = IF pc = "start_encode" THEN "portable_encode" ELSE "portable_decode_encode"
    /\ UNCHANGED <<nightly, bmi2, x, y, a, coords>>

PortableDecode ==
    /\ pc \in {"start_decode", "portable_encode"}
    /\ coords' = portable_morton_decode(DecodeArg)
    /\ impl' = "portable"
    /\ pc' = IF pc = "start_decode" THEN "portable_decode" ELSE "portable_encode_decode"
    /\ UNCHANGED <<nightly, bmi2, x, y, a, key, spread_y, lhs, rhs, overflow>>

BmiEncode ==
    /\ "bmi" \in Compiled
    /\ pc = "start_encode"
    /\ BmiEncodeStep(x, y)
    /\ pc' = "bmi_encode"
    /\ UNCHANGED <<nightly, bmi2, x, y, a, coords>>

BmiDecode ==
    /\ "bmi" \in Compiled
    /\ pc = "start_decode"
    /\ coords' = bmi_morton_decode(a)
    /\ impl' = "bmi"
    /\ pc' = "bmi_decode"
    /\ UNCHANGED <<nightly, bmi2, x, y, a, key, spread_y, lhs, rhs, overflow>>

\* morton_encode as named at the crate root.
MortonEncode ==
    /\ pc = "start_encode"
    /\ \E m \in Exported \cap Compiled :
          IF m = "bmi" THEN BmiEncodeStep(x, y) ELSE PortableEncodeStep(x, y)
    /\ pc' = "encode"
    /\ UNCHANGED <<nightly, bmi2, x, y, a, coords>>

\* morton_decode as named at the crate root.
MortonDecode ==
    /\ pc = "start_decode"
    /\ \E m \in Exported \cap Compiled :
          /\ coords' = IF m = "bmi" THEN bmi_morton_decode(a) ELSE portable_morton_decode(a)
          /\ impl' = m
    /\ pc' = "decode"
    /\ UNCHANGED <<nightly, bmi2, x, y, a, key, spread_y, lhs, rhs, overflow>>

Next ==
    \/ PortableEncode
    \/ PortableDecode
    \/ BmiEncode
    \/ BmiDecode
    \/ MortonEncode
    \/ MortonDecode

Spec == Init /\ [][Next]_vars

TypeOK ==
    /\ x \subseteq U32Bits /\ y \subseteq U32Bits /\ a \subseteq U64Bits
    /\ key \subseteq U64Bits
    /\ coords[1] \subseteq U32Bits /\ coords[2] \subseteq U32Bits

----------------------------------------------------------------------------
(* Properties *)

EvenBits == {i \in U64Bits : i % 2 = 0}
OddBits == {i \in U64Bits : i % 2 = 1}

\* v < w as unsigned integers: the highest bit in which they differ is set in w.
Less(v, w) ==
    /\ v # w
    /\ (CHOOSE m \in Xor(v, w) : \A n \in Xor(v, w) : n <= m) \in w

\* C1: decoding the key that portable::morton_encode returned for (x, y) with
\* portable::morton_decode gives back exactly (x, y).
C1_RoundTrip ==
    pc = "portable_encode_decode" => coords = <<x, y>>

C1_Witness ==
    /\ pc = "portable_encode_decode"
    /\ x = U32Bits
    /\ y = FromHex(<<10,10,10,10,10,10,10,10>>)
    /\ coords = <<x, y>>

\* C2: bit 2i of portable::morton_encode(x, y) is bit i of x and bit 2i+1 is
\* bit i of y, for every i in 0..31; a single set bit k of x alone gives the
\* key with the single bit 2k, and a single set bit k of y alone gives the key
\* with the single bit 2k+1.
C2_BitLayout ==
    pc = "portable_encode" =>
        /\ \A i \in U32Bits :
              /\ (2 * i \in key) <=> (i \in x)
              /\ (2 * i + 1 \in key) <=> (i \in y)
        /\ \A k \in U32Bits :
              /\ (x = {k} /\ y = Zero) => key = {2 * k}
              /\ (x = Zero /\ y = {k}) => key = {2 * k + 1}

C2_Witness ==
    /\ pc = "portable_encode"
    /\ x = Zero
    /\ y = {31}
    /\ key = {63}

\* C3: encoding the coordinates that portable::morton_decode returned for a
\* key a with portable::morton_encode gives back exactly a, for every 64-bit
\* key, bit 63 included.
C3_DecodeEncode ==
    pc = "portable_decode_encode" => key = a

C3_Witness ==
    /\ pc = "portable_decode_encode"
    /\ 63 \in a
    /\ 62 \notin a
    /\ key = a

\* C4: bmi::morton_encode returns the same key as portable::morton_encode for
\* the same coordinates.
C4_EncodeEquivalent ==
    pc = "bmi_encode" => key = portable_morton_encode(x, y)

C4_Witness ==
    /\ pc = "bmi_encode"
    /\ x = FromHex(<<5,5,5,5,5,5,5,5>>)
    /\ y = U32Bits
    /\ 63 \in key

\* C5: bmi::morton_decode returns the same coordinates as
\* portable::morton_decode for the same key, also when bit 63 of the key is
\* set and the signed shift of the hardware path fills in a sign bit.
C5_DecodeEquivalent ==
    pc = "bmi_decode" => coords = portable_morton_decode(a)

C5_Witness ==
    /\ pc = "bmi_decode"
    /\ 63 \in a
    /\ 62 \notin a
    /\ 31 \in coords[2]
    /\ 30 \notin coords[2]

\* C6: every implementation encodes (0x123456, 0x456789) as 0x21262d3a9196
\* and decodes 0x21262d3a9196 as (0x123456, 0x456789).
C6_KnownVector ==
    /\ (pc \in {"portable_encode", "bmi_encode", "encode"} /\ x = INPUT_X /\ y = INPUT_Y)
          => key = OUTPUT
    /\ (pc \in {"portable_decode", "bmi_decode", "decode"} /\ a = OUTPUT)
          => coords = <<INPUT_X, INPUT_Y>>

C6_Witness ==
    /\ pc = "portable_encode"
    /\ x = INPUT_X
    /\ y = INPUT_Y
    /\ key = OUTPUT

\* C7: in every build configuration exactly one module's pair is re-exported
\* at the crate root, the bmi pair iff both the nightly feature and the bmi2
\* target feature are set and the portable pair otherwise; the bmi module is
\* compiled only for a target with bmi2, and a call through the crate root
\* runs the re-exported module's function.
C7_Selection ==
    /\ Cardinality(Exported) = 1
    /\ Exported \subseteq Compiled
    /\ (Exported = {"bmi"}) <=> (nightly /\ bmi2)
    /\ (Exported = {"portable"}) <=> ~(nightly /\ bmi2)
    /\ ("bmi" \in Compiled) => bmi2
    /\ (impl = "bmi") => bmi2
    /\ (pc \in {"encode", "decode"}) =>
          impl = (IF nightly /\ bmi2 THEN "bmi" ELSE "portable")

C7_Witness ==
    /\ pc = "encode"
    /\ nightly
    /\ bmi2
    /\ impl = "bmi"
    /\ x = INPUT_X

\* C8: the two operands of the addition in portable::morton_encode have no
\* set bit in common: the shifted spread of y has only odd bits, and every
\* bit of the spread of y survives the shift; the spread of x has only even
\* bits; the addition does not overflow and its result is the bitwise or of
\* the operands.
C8_NoCarry ==
    (pc = "portable_encode") =>
        /\ lhs \subseteq OddBits
        /\ rhs \subseteq EvenBits
        /\ And(lhs, rhs) = {}
        /\ 63 \notin spread_y
        /\ Cardinality(lhs) = Cardinality(y)
        /\ Cardinality(rhs) = Cardinality(x)
        /\ ~overflow
        /\ key = Or(lhs, rhs)

C8_Witness ==
    /\ pc = "portable_encode"
    /\ x = U32Bits
    /\ y = U32Bits
    /\ key = U64Bits

\* C9 as stated: bmi::morton_encode deposits the bits of y at the odd
\* positions and the bits of x at the even positions, then shifts the y
\* deposit left by one and ors the two.
C9_Original ==
    (pc = "bmi_encode") =>
        /\ spread_y = bmi_pdep_64(y, OddBits)
        /\ rhs = bmi_pdep_64(x, EvenBits)
        /\ lhs = Shl(spread_y, 1)
        /\ key = Or(lhs, rhs)

\* C9: bmi::morton_encode deposits the bits of y and the bits of x at the
\* even positions (bit i goes to position 2i), then shifts the y deposit left
\* by one, which moves it to the odd positions, and ors the two.
C9_DepositEven ==
    (pc = "bmi_encode") =>
        /\ spread_y = {2 * i : i \in y}
        /\ rhs = {2 * i : i \in x}
        /\ lhs = {2 * i + 1 : i \in y}
        /\ key = Or(lhs, rhs)

C9_Witness ==
    /\ pc = "bmi_encode"
    /\ y = {0, 1}
    /\ x = {31}
    /\ spread_y = {0, 2}
    /\ lhs = {1, 3}

\* C10: portable::morton_encode is strictly increasing in x for fixed y and
\* strictly increasing in y for fixed x, keys compared as unsigned integers.
C10_Monotone ==
    (pc = "portable_encode") =>
        \A v \in InU32 :
            /\ Less(x, v) => Less(key, portable_morton_encode(v, y))
            /\ Less(v, x) => Less(portable_morton_encode(v, y), key)
            /\ Less(y, v) => Less(key, portable_morton_encode(x, v))
            /\ Less(v, y) => Less(portable_morton_encode(x, v), key)

C10_Witness ==
    /\ pc = "portable_encode"
    /\ x = {3, 4}
    /\ y = FromHex(<<5,5,5,5,5,5,5,5>>)
    /\ Less(key, portable_morton_encode({5}, y))
====
